---- MODULE Spec2Model ----
(***************************************************************************)
(* Model of the multi-variant scanner of @kunobi/mcp: VariantScanner       *)
(* (scanner.ts), the scan configuration read by getScanConfig              *)
(* (discovery.ts) and the kunobi_refresh tool handler (tools/refresh.ts).  *)
(*                                                                         *)
(* Every `await` of the TypeScript code is a point where other handlers    *)
(* may run; the code between two awaits is one atomic step.                *)
(***************************************************************************)
EXTENDS Integers, Sequences, FiniteSets, TLC

\* ------------------------------------------------------------------ bounds
MaxThreshold == 3   \* largest value given to MCP_KUNOBI_MISS_THRESHOLD
MaxHandles == 2     \* probes confirm untracked endpoints while fewer bundlers are live
MaxCloseFails == 1  \* times removeVariant may fail on one entry
MaxStops == 1       \* stop() calls that may be pending at once
MaxClock == 1       \* largest reading of the wall clock
MaxItems == 2       \* most items of MCP_KUNOBI_PORTS
MaxSignals == 2     \* termination signals the process receives

\* ---------------------------------------------------------- endpoint table
\* Object.entries(this.ports): two entries of DEFAULT_VARIANT_PORTS, in order.
PortOrder == <<"dev", "e2e">>
Variants == {PortOrder[i] : i \in 1..Len(PortOrder)}
DEFAULT_VARIANT_PORTS == [v \in Variants |-> IF v = "dev" THEN 3400 ELSE 3600]

\* ------------------------------------------------------------ getScanConfig
\* A value of process.env.MCP_KUNOBI_MISS_THRESHOLD: unset, a non-numeric
\* string, or the decimal text of an integer.
EnvValues ==
    {[set |-> FALSE, numeric |-> FALSE, val |-> 0],
     [set |-> TRUE, numeric |-> FALSE, val |-> 0]}
    \cup {[set |-> TRUE, numeric |-> TRUE, val |-> n] : n \in (0 - 1)..MaxThreshold}

\* Number(x): NaN for undefined and for non-numeric text.
ToNumber(e) == [nan |-> ~(e.set /\ e.numeric), val |-> IF e.set /\ e.numeric THEN e.val ELSE 0]

\* n || d: NaN and 0 are falsy.
OrDefault(n, d) == IF n.nan \/ n.val = 0 THEN d ELSE n.val

DefaultMissThreshold == 3

GetScanConfigMissThreshold(e) == OrDefault(ToNumber(e), DefaultMissThreshold)

\* A value of process.env.MCP_KUNOBI_ENABLED.
EnabledEnvValues == {"unset", "false", "true", "0"}

\* process.env.MCP_KUNOBI_ENABLED !== 'false'
GetScanConfigEnabled(e) == e # "false"

\* ---------------------------------------------------------- parseJsonOrSse
\* A text is a sequence of characters; "SP", "LF", "CR" and "TAB" are the
\* space, line feed, carriage return and tab.
Whitespace == {"SP", "LF", "CR", "TAB"}

RECURSIVE TrimStart(_)
TrimStart(t) == IF t # <<>> /\ Head(t) \in Whitespace THEN TrimStart(Tail(t)) ELSE t

RECURSIVE TrimEnd(_)
TrimEnd(t) ==
    IF t # <<>> /\ t[Len(t)] \in Whitespace THEN TrimEnd(SubSeq(t, 1, Len(t) - 1)) ELSE t

\* text.trim()
Trim(t) == TrimEnd(TrimStart(t))

\* 'data: '
Marker == <<"d", "a", "t", "a", ":", "SP">>

\* t.startsWith(p)
StartsWith(t, p) == Len(t) >= Len(p) /\ SubSeq(t, 1, Len(p)) = p

\* t.slice(n)
Slice(t, n) == SubSeq(t, n + 1, Len(t))

\* A parser that takes all that follows the marker.
WholeText(t) == t

\* t.split('\n')[0]
FirstLine(t) ==
    IF \E i \in 1..Len(t) : t[i] = "LF"
    THEN SubSeq(t, 1, (CHOOSE i \in 1..Len(t) : t[i] = "LF" /\ \A j \in 1..(i - 1) : t[j] # "LF") - 1)
    ELSE t

\* The JSON texts of the model, each on one line.
JsonTexts == {<<"{", "}">>, <<"{", "SP", "}">>, <<"1">>, <<"[", "1", "]">>}

\* JSON.parse(t): white space around a JSON text and between its tokens is
\* insignificant; anything else throws a SyntaxError.
JSONParse(t) ==
    IF Trim(t) \in JsonTexts
    THEN [ok |-> TRUE, value |-> SelectSeq(Trim(t), LAMBDA c : c \notin Whitespace)]
    ELSE [ok |-> FALSE, value |-> <<>>]

\* parseJsonOrSse(response), on the text of the response
parseJsonOrSse(text) ==
    LET trimmed == Trim(text) IN
    IF StartsWith(trimmed, Marker)
    THEN JSONParse(FirstLine(Slice(trimmed, Len(Marker))))
    ELSE JSONParse(trimmed)

\* White space around a body.
Pads == {<<>>, <<"SP">>, <<"LF", "TAB">>}

\* What follows the payload line of an event stream: nothing, blank lines,
\* and further stream lines. Lines end with a line feed or with a carriage
\* return and a line feed.
Tails == {<<>>, <<"LF", "LF">>, <<"CR", "LF", "CR", "LF">>, <<"LF", "LF", "d", "a", "t", "a", ":", "SP", "[", "D", "O", "N", "E", "]", "LF", "LF">>, <<"LF", "i", "d", ":", "SP", "1">>}

\* The bodies of the model: a payload, that is a JSON text or the text "{"
\* that is none, plain or as the first payload line of an event stream.
Bodies ==
    {b \in [lead : Pads, marker : BOOLEAN, payload : JsonTexts \cup {<<"{">>}, tail : Tails,
            trail : Pads] : ~b.marker => b.tail = <<>>}

\* The text of a body.
Text(b) == b.lead \o (IF b.marker THEN Marker ELSE <<>>) \o b.payload \o b.tail \o b.trail

NoBody == [lead |-> <<>>, marker |-> FALSE, payload |-> <<>>, tail |-> <<>>, trail |-> <<>>]

\* parseJsonOrSse has not been called.
NotParsed == [ok |-> FALSE, value |-> <<"pending">>]

\* ------------------------------------------------------ probeKunobiServer
\* return null
Absent == [kind |-> "absent", tools |-> <<>>, serverName |-> <<>>]

\* return { tools, serverName }
Confirmed(tools, serverName) == [kind |-> "confirmed", tools |-> tools, serverName |-> serverName]

\* A probe without its try/catch: the exception leaves it.
Uncaught == [kind |-> "threw", tools |-> <<>>, serverName |-> <<>>]

\* catch { return null; }
Caught == Absent

Kunobi == <<"k", "u", "n", "o", "b", "i">>

\* c.toLowerCase(), for the capitals of the model
ToLowerCase(t) ==
    [i \in 1..Len(t) |->
        CASE t[i] = "K" -> "k" [] t[i] = "U" -> "u" [] t[i] = "N" -> "n" [] t[i] = "O" -> "o"
          [] t[i] = "B" -> "b" [] t[i] = "I" -> "i" [] t[i] = "D" -> "d" [] OTHER -> t[i]]

\* t.includes(p)
Includes(t, p) == \E i \in 1..(Len(t) - Len(p) + 1) : SubSeq(t, i, i + Len(p) - 1) = p

\* A probe that takes any identity.
IdentityAcceptedAny(serverName) == TRUE

\* serverName.toLowerCase().includes('kunobi')
IdentityAccepted(serverName) == Includes(ToLowerCase(serverName), Kunobi)

\* result.serverInfo.name of the initialize response: absent, a string, or a
\* value that is no string.
Names ==
    {[type |-> "undefined", text |-> <<>>], [type |-> "number", text |-> <<>>]}
    \cup {[type |-> "string", text |-> t] : t \in
            {<<"k", "u", "n", "o", "b", "i">>,
             <<"K", "u", "n", "o", "b", "i", "SP", "D", "e", "v">>,
             <<"K", "U", "N", "O", "B", "I">>,
             <<"s", "o", "m", "e", "-", "o", "t", "h", "e", "r", "-", "s", "e", "r", "v", "i", "c", "e">>,
             <<>>,
             <<"k", "u", "n", "o", "b">>}}

\* How the endpoint answers `initialize`: the fetch fails or times out, the
\* status is no success, the body does not parse, or it is an initialize
\* result.
InitKinds == {"refused", "timeout", "status", "unparseable", "ok"}

\* How the endpoint answers `tools/list`: the fetch throws, the status is no
\* success, the body does not parse, it parses and has no result.tools, its
\* result.tools is no array, or it is a list of tools.
Lists ==
    {[kind |-> k, tools |-> <<>>] : k \in {"throws", "status", "unparseable", "missing", "notArray"}}
    \cup {[kind |-> "ok", tools |-> t] : t \in {<<>>, <<"tool">>}}

Responders ==
    [port : Variants, init : InitKinds, name : Names, inited : {"ok", "throws"}, list : Lists]

\* Nothing listens.
NoResponder ==
    [port |-> PortOrder[1], init |-> "refused", name |-> [type |-> "undefined", text |-> <<>>],
     inited |-> "throws", list |-> [kind |-> "throws", tools |-> <<>>]]

\* A probe that takes a tools/list without success for no instance.
ToolsNotOkAbsent(serverName) == Absent

\* if (!toolsResponse.ok) return { tools: [], serverName };
ToolsNotOk(serverName) == Confirmed(<<>>, serverName)

\* A probe that takes a body without tools for no instance.
NoToolsAbsent(serverName) == Absent

\* body.result?.tools?.map((t) => t.name) ?? [], of a body without tools
NoTools(serverName) == Confirmed(<<>>, serverName)

\* probeKunobiServer(url), by what answers at url
probeKunobiServer(r) ==
    IF r.init \in {"refused", "timeout", "unparseable"} THEN Caught
    ELSE IF r.init = "status" THEN Absent
    ELSE IF r.name.type = "number" THEN Caught
    ELSE LET serverName == IF r.name.type = "undefined" THEN <<>> ELSE r.name.text IN
         IF ~IdentityAccepted(serverName) THEN Absent
         ELSE IF r.inited = "throws" THEN Caught
         ELSE CASE r.list.kind \in {"throws", "unparseable", "notArray"} -> Caught
                [] r.list.kind = "status" -> ToolsNotOk(serverName)
                [] r.list.kind = "missing" -> NoTools(serverName)
                [] OTHER -> Confirmed(r.list.tools, serverName)

\* ---------------------------------------------------- getScanConfig: ports
\* Number(t) of a text: 0 for white space alone, the number a decimal numeral
\* denotes, NaN for the other texts of the model.
Digits == <<"0", "1", "2", "3", "4", "5", "6", "7", "8", "9">>

DigitVal(c) == (CHOOSE i \in 1..Len(Digits) : Digits[i] = c) - 1

IsDigit(c) == \E i \in 1..Len(Digits) : Digits[i] = c

RECURSIVE Decimal(_)
Decimal(t) == IF t = <<>> THEN 0 ELSE 10 * Decimal(SubSeq(t, 1, Len(t) - 1)) + DigitVal(t[Len(t)])

NumberOf(t) ==
    IF \A i \in 1..Len(Trim(t)) : IsDigit(Trim(t)[i])
    THEN [nan |-> FALSE, val |-> Decimal(Trim(t))]
    ELSE [nan |-> TRUE, val |-> 0]

\* t.split(',')
RECURSIVE Split(_)
Split(t) ==
    IF \E i \in 1..Len(t) : t[i] = ","
    THEN LET i == CHOOSE j \in 1..Len(t) : t[j] = "," /\ \A l \in 1..(j - 1) : t[l] # ","
         IN <<SubSeq(t, 1, i - 1)>> \o Split(SubSeq(t, i + 1, Len(t)))
    ELSE <<t>>

\* A getScanConfig that does not filter.
Unfiltered(table, allowed) == table

\* Object.fromEntries(Object.entries(ports).filter(([, port]) => allowed.has(port)))
Filtered(table, allowed) ==
    [v \in {w \in DOMAIN table : [nan |-> FALSE, val |-> table[w]] \in allowed} |-> table[v]]

\* The ports of getScanConfig(), MCP_KUNOBI_PORTS being unset or the text t.
getScanConfigPorts(set, t) ==
    IF ~set \/ t = <<>>
    THEN DEFAULT_VARIANT_PORTS
    ELSE Filtered(DEFAULT_VARIANT_PORTS,
                  {NumberOf(Trim(Split(t)[i])) : i \in 1..Len(Split(t))})

\* The words between the commas of a filter: the numerals of the two ports
\* of the table and of two other numbers, one of them the first digits of a
\* port, no word, and a word that is no numeral.
Words == {<<"3", "4", "0", "0">>, <<"3", "6", "0", "0">>, <<"1", "2", "3", "4">>, <<"3", "4">>, <<>>, <<"x">>}

\* A word, bare or with a space before or after it.
Items == [pad : {"none", "lead", "trail"}, word : Words]

ItemText(it) ==
    (IF it.pad = "lead" THEN <<"SP">> ELSE <<>>) \o it.word
    \o (IF it.pad = "trail" THEN <<"SP">> ELSE <<>>)

\* The values of MCP_KUNOBI_PORTS: unset, or items with commas between them.
PortEnvs ==
    {[set |-> FALSE, items |-> <<>>]}
    \cup {[set |-> TRUE, items |-> its] : its \in UNION {[1..n -> Items] : n \in 1..MaxItems}}

RECURSIVE EnvText(_)
EnvText(its) ==
    IF Len(its) = 0 THEN <<>>
    ELSE IF Len(its) = 1 THEN ItemText(its[1])
    ELSE ItemText(its[1]) \o <<",">> \o EnvText(Tail(its))

\* MCP_KUNOBI_PORTS is unset.
NoFilter == [set |-> FALSE, items |-> <<>>]

\* getScanConfig() has not returned.
NotRead == [read |-> FALSE, table |-> <<>>]

\* -------------------------------------------- probeKunobiServer, by steps
\* The mcp-session-id header of the response to initialize: absent, or
\* present with a value, which may be empty.
Tokens == {[present |-> FALSE, value |-> ""], [present |-> TRUE, value |-> "sid-1"],
           [present |-> TRUE, value |-> ""]}

\* PROBE_HEADERS: no session header.
NoSession == [present |-> FALSE, value |-> ""]

\* Requests that carry no session header.
sessionHeadersNone(token) == NoSession

\* { ...PROBE_HEADERS, ...(response.headers.has('mcp-session-id')
\*     ? { 'mcp-session-id': response.headers.get('mcp-session-id') ?? '' } : {}) }
sessionHeaders(token) == IF token.present THEN [present |-> TRUE, value |-> token.value] ELSE NoSession

\* probeKunobiServer has not been called.
NoProbe ==
    [pc |-> "idle", token |-> NoSession, requests |-> <<>>, serverName |-> <<>>, result |-> Absent]

\* --------------------------------------------------------------- variables
VARIABLES
    missThreshold,  \* this.missThreshold
    tracked,        \* this.tracked: Map in insertion order, as a sequence of entries
    timer,          \* this.timer is not null
    intervals,      \* number of armed setInterval timers
    scanning,       \* this.scanning
    scans,          \* the activations of scan() that are suspended at an await
    stops,          \* activations of stop(): where each is suspended
    background,     \* close() calls still running after their stop() rejected
    bundlers,       \* the McpBundlers that are open or still referred to
    lastScanTime,   \* this.lastScanTime, Never for null
    now,            \* the wall clock that new Date() reads
    responder,      \* what answers the probes: the endpoint it listens on and how it responds
    body,           \* the text of a Response given to parseJsonOrSse, in its parts
    parsed,         \* what parseJsonOrSse has made of body
    portsEnv,       \* process.env.MCP_KUNOBI_PORTS, in its parts
    ports,          \* scanConfig.ports, once getScanConfig() has returned
    probe,          \* one call of probeKunobiServer: where it is and the requests it has sent
    enabled,        \* scanConfig.enabled
    shutdown,       \* shutdown(): where it is, and whether its timeout is armed
    refresh,        \* the kunobi_refresh handler: where it is
    everConfirmed,  \* history: endpoints whose probe has returned non-null
    silentRun,      \* history: cycles in a row in which a tracked endpoint's probe returned null, 0 if untracked
    phases,         \* what each McpBundler answers to getState() and getTools()
    snapshot,       \* the Map the last call of getStates() returned, as its caller holds it
    usage           \* history: "fresh", "manual" once the refresh tool has scanned, "started" once start() was called,
                    \* "stopped" once a stop() has then resolved with neither start() nor scan() called since it was called

vars == <<probe, portsEnv, ports, responder, body, parsed, enabled, shutdown, now, missThreshold, tracked, timer, intervals, scanning, scans, stops,
          background, bundlers, lastScanTime, refresh, everConfirmed, silentRun,
          phases, snapshot, usage>>

Never == 0 - 1

StopIds == 1..MaxStops

\* let shuttingDown = false: shutdown() has not been called; awaits is the
\* stop() it awaits, 0 for none. History: the termination signals received,
\* the calls of scanner.stop() and of server.close() that shutdown() has made
\* and the timeouts it has armed.
NoShutdown ==
    [pc |-> "idle", timeout |-> FALSE, awaits |-> 0,
     signals |-> 0, stopCalls |-> 0, closeCalls |-> 0, timeouts |-> 0]

IdleStop == [pc |-> "idle", unclosed |-> {}, pending |-> {}, rearmed |-> FALSE, scanned |-> FALSE]

\* ------------------------------------------------------- registry helpers
Has(tr, v) == \E i \in 1..Len(tr) : tr[i].variant = v
Get(tr, v) == tr[CHOOSE i \in 1..Len(tr) : tr[i].variant = v]
Delete(tr, v) == SelectSeq(tr, LAMBDA e : e.variant # v)
SetMiss(tr, v, n) ==
    [i \in 1..Len(tr) |-> IF tr[i].variant = v THEN [tr[i] EXCEPT !.missCount = n] ELSE tr[i]]
TrackedNames(tr) == {tr[i].variant : i \in 1..Len(tr)}
TrackedBundlers(tr) == {tr[i].bundler : i \in 1..Len(tr)}
Min(a, b) == IF a < b THEN a ELSE b
Max(a, b) == IF a > b THEN a ELSE b
Without(q, k) == [j \in 1..(Len(q) - 1) |-> IF j < k THEN q[j] ELSE q[j + 1]]

\* ---------------------------------------------------------------- bundlers
\* bundlers maps the identity of a McpBundler to its endpoint and whether
\* close() has completed on it. A closed bundler nothing refers to is dropped
\* and its identity used again.
IsOpen(bs, h) == h \in DOMAIN bs /\ ~bs[h].closed
Close(bs, h) == IF h \in DOMAIN bs THEN [bs EXCEPT ![h].closed = TRUE] ELSE bs
NewId(bs) == CHOOSE h \in 1..(Cardinality(DOMAIN bs) + 1) : h \notin DOMAIN bs
Referred(tr, scs, sts, bg) ==
    TrackedBundlers(tr) \cup {scs[k].handle : k \in 1..Len(scs)} \cup bg
    \cup UNION {sts[s].pending : s \in StopIds}
\* close() has completed on h: no stop() has it left to close.
Closed(sts, h) == [s \in StopIds |-> [sts[s] EXCEPT !.unclosed = @ \ {h}]]
Collect(bs, keep) == [h \in {x \in DOMAIN bs : ~bs[x].closed \/ x \in keep} |-> bs[h]]

\* bundler.getState() returns 'idle' | 'connecting' | 'connected' | 'disconnected'.
BundlerStates == {"idle", "connecting", "connected", "disconnected"}

\* What a McpBundler answers: getState() and getTools().
BundlerViews == [state : BundlerStates, tools : {<<>>, <<"tool">>}]

BundlerIds == 1..MaxHandles

\* A McpBundler on which connect() has not been called or has not settled.
IdleView == [state |-> "idle", tools |-> <<>>]

\* The bundlers of bs as ph has them; one that is not in bs is, once
\* created, a new one.
Fresh(ph, bs) == [h \in BundlerIds |-> IF h \in DOMAIN bs THEN ph[h] ELSE IdleView]

\* `${variant}/${t}` for every t of getTools()
Prefixed(v, tools) == [i \in 1..Len(tools) |-> <<v, tools[i]>>]

\* A status that is the bundler's state as it is, 'idle' included.
StatusRaw(state) == state

\* bundlerState === 'idle' ? 'connecting' : bundlerState
Status(state) == IF state = "idle" THEN "connecting" ELSE state

\* getStates(): for every entry of this.ports, the bundler's state and tools
\* if the endpoint is tracked, 'not_detected' and no tools if it is not.
getStates(tr, ph) ==
    [v \in Variants |->
        IF Has(tr, v)
        THEN [port |-> DEFAULT_VARIANT_PORTS[v],
              status |-> Status(ph[Get(tr, v).bundler].state),
              tools |-> Prefixed(v, ph[Get(tr, v).bundler].tools)]
        ELSE [port |-> DEFAULT_VARIANT_PORTS[v], status |-> "not_detected", tools |-> <<>>]]

\* A getStates() that hands out the Map it reads from.
ReturnedLive(states) == [live |-> TRUE, val |-> states]

\* `const states = new Map(); ... return states`: the caller holds a Map of
\* its own, built of objects of its own.
Returned(states) == [live |-> FALSE, val |-> states]

\* No call of getStates() has returned yet.
NoSnapshot == [live |-> FALSE, val |-> <<>>]

\* What the holder of a returned Map reads in it.
Held(snap, tr, ph) == IF snap.live THEN getStates(tr, ph) ELSE snap.val

\* getLastScanTime(): return this.lastScanTime
getLastScanTime == lastScanTime

Init ==
    /\ missThreshold \in {GetScanConfigMissThreshold(e) : e \in EnvValues}
    /\ tracked = <<>>
    /\ timer = FALSE
    /\ intervals = 0
    /\ scanning = FALSE
    /\ scans = <<>>
    /\ stops = [s \in StopIds |-> IdleStop]
    /\ background = {}
    /\ bundlers = <<>>
    /\ lastScanTime = Never
    /\ now = 0
    /\ responder = NoResponder
    /\ body = NoBody
    /\ parsed = NotParsed
    /\ portsEnv = NoFilter
    /\ ports = NotRead
    /\ probe = NoProbe
    /\ enabled = GetScanConfigEnabled("unset")
    /\ shutdown = NoShutdown
    /\ refresh = "idle"
    /\ everConfirmed = {}
    /\ silentRun = [v \in Variants |-> 0]
    /\ phases = [h \in BundlerIds |-> IdleView]
    /\ snapshot = NoSnapshot
    /\ usage = "fresh"

\* ------------------------------------------------------------------ scan()
\* scan() without its overlap guard.
OverlapsNever == FALSE

\* if (this.scanning) return;
Overlaps == scanning

\* A first loop that takes every probe result for non-null.
RespondedAlways(sc, v) == TRUE

\* result !== null
Responded(sc, v) == v \in sc.results

\* The threshold test taken one miss early.
ReachedThresholdEarly(n) == n + 1 >= missThreshold

\* tracked.missCount >= this.missThreshold
ReachedThreshold(n) == n >= missThreshold

\* A first loop that makes a responding entry anew, with another bundler.
ResetMissReplaces(tr, v) ==
    [i \in 1..Len(tr) |->
        IF tr[i].variant = v
        THEN [tr[i] EXCEPT !.missCount = 0,
                           !.bundler = CHOOSE h \in BundlerIds : h # tr[i].bundler]
        ELSE tr[i]]

\* A first loop that leaves the counter of a responding entry as it is.
ResetMissSkipped(tr, v) == tr

\* if (tracked) tracked.missCount = 0;
ResetMiss(tr, v) == SetMiss(tr, v, 0)

\* addVariant up to its return: new McpBundler(...), this.tracked.set(variant,
\* {bundler, port, missCount: 0}); connect() is not awaited and its rejection
\* is swallowed.
AddVariant(tr, bs, v) ==
    [tracked |-> Append(tr, [variant |-> v, bundler |-> NewId(bs), missCount |-> 0]),
     bundlers |-> [h \in DOMAIN bs \cup {NewId(bs)} |->
                      IF h = NewId(bs) THEN [name |-> v, closed |-> FALSE] ELSE bs[h]]]

\* The first entry of the Map the iterator of `for (... of this.tracked)` has
\* not yet visited, 0 if there is none.
NextUnvisited(tr, visited) ==
    IF \E i \in 1..Len(tr) : tr[i].variant \notin visited
    THEN CHOOSE i \in 1..Len(tr) :
            /\ tr[i].variant \notin visited
            /\ \A j \in 1..(i - 1) : tr[j].variant \in visited
    ELSE 0

\* An activation of scan() suspended at `await Promise.all(...)` of the probes.
\* reset is history: the entries whose counter the first loop has reset;
\* unregistered, that removeVariant has called unregisterTools on the bundler
\* it is closing.
Probing == [pc |-> "probing", results |-> {}, idx |-> 0, visited |-> {}, target |-> "", handle |-> 0,
            notified |-> "none", sent |-> 0, reset |-> {}, unregistered |-> FALSE]

\* A removeVariant that takes the record out of the registry before it closes
\* the bundler.
removeVariantDeletesFirst(tr, sc, v) ==
    [tracked |-> Delete(tr, v),
     scan |-> [sc EXCEPT !.pc = "closing", !.target = v, !.handle = Get(tr, v).bundler,
                         !.unregistered = TRUE]]

\* removeVariant(v) up to `await tracked.bundler.close()`: unregisterTools,
\* then close() is called.
removeVariant(tr, sc, v) ==
    [tracked |-> tr,
     scan |-> [sc EXCEPT !.pc = "closing", !.target = v, !.handle = Get(tr, v).bundler,
                         !.unregistered = TRUE]]

\* The second loop of scan(), run until its next await or the end of scan().
RECURSIVE MissLoop(_, _, _)
MissLoop(tr, bs, sc) ==
    LET i == NextUnvisited(tr, sc.visited) IN
    IF i = 0
    THEN [tracked |-> tr, bundlers |-> bs, scan |-> sc, done |-> TRUE]
    ELSE LET v == tr[i].variant
             seen == [sc EXCEPT !.visited = @ \cup {v}]
         IN  IF Responded(sc, v)
             THEN MissLoop(tr, bs, seen)
             ELSE LET n == tr[i].missCount + 1
                      tr2 == SetMiss(tr, v, n)
                  IN  IF ReachedThreshold(n)
                      THEN [tracked |-> removeVariant(tr2, seen, v).tracked, bundlers |-> bs,
                            scan |-> removeVariant(tr2, seen, v).scan,
                            done |-> FALSE]
                      ELSE MissLoop(tr2, bs, seen)

\* The first loop of scan() from entry i of probeResults, run until its next
\* await; it falls through to the second loop.
RECURSIVE Reconcile(_, _, _, _)
Reconcile(tr, bs, sc, i) ==
    IF i > Len(PortOrder)
    THEN MissLoop(tr, bs, [sc EXCEPT !.idx = 0, !.visited = {}, !.reset = {}])
    ELSE LET v == PortOrder[i] IN
         IF Responded(sc, v)
         THEN IF ~Has(tr, v)
              THEN LET a == AddVariant(tr, bs, v) IN
                   [tracked |-> a.tracked, bundlers |-> a.bundlers,
                    scan |-> [sc EXCEPT !.pc = "added", !.idx = i + 1],
                    done |-> FALSE]
              ELSE Reconcile(ResetMiss(tr, v), bs, [sc EXCEPT !.reset = @ \cup {v}], i + 1)
         ELSE Reconcile(tr, bs, sc, i + 1)

\* A cycle end that records no time.
ClockReadingsNone == {Never}

\* new Date()
ClockReadings == {now}

\* A call of scan() up to its first await: the overlap guard, then the probes
\* are issued.
ScanCall ==
    IF Overlaps
    THEN UNCHANGED <<scans, scanning>>
    ELSE /\ scans' = Append(scans, Probing)
         /\ scanning' = TRUE

\* What becomes of the refresh handler when a cycle ends: the scan() it
\* awaits resolves ("done") or rejects ("failed"); a handler whose scan()
\* returned at once and that has not resumed yet has seen a cycle complete.
RefreshAfterCycle(ok) ==
    CASE refresh = "awaiting" -> IF ok THEN "done" ELSE "failed"
      [] refresh = "noop" -> IF ok THEN "done" ELSE "noop"
      [] OTHER -> refresh

\* The k-th activation of scan() continues with r, the outcome of running it
\* to its next await.
ScanAdvance(k, r) ==
    /\ tracked' = r.tracked
    /\ IF r.done
       THEN \* this.lastScanTime = new Date(); finally { this.scanning = false }
            /\ scans' = Without(scans, k)
            /\ scanning' = FALSE
            /\ lastScanTime' \in ClockReadings
            /\ refresh' = RefreshAfterCycle(TRUE)
       ELSE /\ scans' = [scans EXCEPT ![k] = r.scan]
            /\ UNCHANGED <<scanning, lastScanTime, refresh>>
    /\ bundlers' = Collect(r.bundlers, Referred(tracked', scans', stops, background))
    /\ phases' = Fresh(phases, bundlers')

\* await Promise.all(probes) resolves: R are the endpoints whose probe
\* returned non-null.
ProbesSettleWith(k, R) ==
    /\ scans[k].pc = "probing"
    /\ Cardinality(DOMAIN bundlers) + Cardinality(R \ TrackedNames(tracked)) <= MaxHandles
    /\ everConfirmed' = everConfirmed \cup R
    /\ silentRun' = [v \in Variants |->
                        IF v \in R \/ ~Has(tracked, v) THEN 0
                        ELSE Min(silentRun[v] + 1, MaxThreshold + 1)]
    /\ ScanAdvance(k, Reconcile(tracked, bundlers, [scans[k] EXCEPT !.results = R], 1))
    /\ UNCHANGED <<snapshot, now, enabled, shutdown, responder, body, parsed, portsEnv, ports, probe, missThreshold, timer, intervals, stops, background, usage>>

\* The probes settle, each endpoint confirmed or not as its probe finds it.
ProbesSettle(k) == \E R \in SUBSET Variants : ProbesSettleWith(k, R)

\* `await this.addVariant(...)` resumes.
AfterAdd(k) ==
    /\ scans[k].pc = "added"
    /\ ScanAdvance(k, Reconcile(tracked, bundlers, scans[k], scans[k].idx))
    /\ UNCHANGED <<snapshot, now, enabled, shutdown, responder, body, parsed, portsEnv, ports, probe, missThreshold, timer, intervals, stops, background, everConfirmed,
                   silentRun, usage>>

\* What sendToolListChanged() does when notifyToolsChanged calls it: the
\* notification is delivered, the promise it returns rejects, or the call
\* itself throws.
NotifyOutcomes == {"delivered", "rejected", "threw"}

\* A notifyToolsChanged without its try/catch: TRUE when an exception leaves it.
notifyToolsChangedUnguarded(o) == o = "threw"

\* try { this.server.server.sendToolListChanged().catch(() => {}); } catch {}:
\* TRUE when an exception leaves it.
notifyToolsChanged(o) == FALSE

\* removeVariant after `await tracked.bundler.close()` resolved:
\* this.tracked.delete(variant); this.notifyToolsChanged(). The activation
\* keeps what became of the notification until scan() resumes.
CloseResolved(k) ==
    /\ scans[k].pc = "closing"
    /\ tracked' = Delete(tracked, scans[k].target)
    /\ \E o \in NotifyOutcomes :
        IF notifyToolsChanged(o)
        THEN /\ scans' = Without(scans, k)
             /\ scanning' = FALSE
             /\ refresh' = RefreshAfterCycle(FALSE)
        ELSE /\ scans' = [scans EXCEPT ![k].pc = "removed", ![k].handle = 0,
                                       ![k].notified = o, ![k].sent = @ + 1]
             /\ UNCHANGED <<scanning, refresh>>
    /\ stops' = Closed(stops, scans[k].handle)
    /\ bundlers' = Collect(Close(bundlers, scans[k].handle),
                           Referred(tracked', scans', stops', background))
    /\ silentRun' = [silentRun EXCEPT ![scans[k].target] = 0]
    /\ phases' = Fresh(phases, bundlers')
    /\ UNCHANGED <<snapshot, now, enabled, shutdown, responder, body, parsed, portsEnv, ports, probe, missThreshold, timer, intervals, background,
                   lastScanTime, everConfirmed, usage>>

\* A scan() that leaves the flag set when an exception leaves it.
FinallySkipped == TRUE

\* finally { this.scanning = false; }: the flag after an exception has left
\* the try block.
Finally == FALSE

\* bundler.close() may reject while the entry has missed fewer than this.
FailLimit == Max(missThreshold, 1) + MaxCloseFails

\* `await tracked.bundler.close()` rejected: removeVariant and scan() throw,
\* finally { this.scanning = false }.
CloseRejected(k) ==
    /\ scans[k].pc = "closing"
    /\ Has(tracked, scans[k].target) => Get(tracked, scans[k].target).missCount < FailLimit
    /\ scans' = Without(scans, k)
    /\ scanning' = Finally
    /\ refresh' = RefreshAfterCycle(FALSE)
    /\ bundlers' = Collect(bundlers, Referred(tracked, scans', stops, background))
    /\ phases' = Fresh(phases, bundlers')
    /\ UNCHANGED <<snapshot, now, enabled, shutdown, responder, body, parsed, portsEnv, ports, probe, missThreshold, tracked, timer, intervals, stops, background,
                   lastScanTime, everConfirmed, silentRun, usage>>

\* `await this.removeVariant(variant)` resumes.
AfterRemove(k) ==
    /\ scans[k].pc = "removed"
    /\ ScanAdvance(k, MissLoop(tracked, bundlers, [scans[k] EXCEPT !.notified = "none", !.sent = 0, !.unregistered = FALSE]))
    /\ UNCHANGED <<snapshot, now, enabled, shutdown, responder, body, parsed, portsEnv, ports, probe, missThreshold, timer, intervals, stops, background, everConfirmed,
                   silentRun, usage>>


\* ---------------------------------------------------------------- triggers
\* A start() that does not look at the timer.
RunningNever == FALSE

\* A start() that always takes the scheduler for running.
RunningAlways == TRUE

\* if (this.timer) return;
Running == timer

\* start(): if (this.timer) return; this.scan(); this.timer = setInterval(...)
Start ==
    /\ usage' = "started"
    /\ IF Running
       THEN UNCHANGED <<scans, scanning, timer, intervals>>
       ELSE /\ ScanCall
            /\ timer' = TRUE
            /\ intervals' = intervals + 1
    /\ stops' = [s \in StopIds |->
                    IF stops[s].pc = "closing" /\ ~timer
                    THEN [stops[s] EXCEPT !.rearmed = TRUE] ELSE stops[s]]
    /\ UNCHANGED <<phases, snapshot, now, enabled, shutdown, responder, body, parsed, portsEnv, ports, probe, missThreshold, tracked, background, bundlers, lastScanTime,
                   refresh, everConfirmed, silentRun>>

\* An armed interval fires: () => this.scan()
TimerTick ==
    /\ intervals > 0
    /\ ScanCall
    /\ UNCHANGED <<phases, snapshot, now, enabled, shutdown, responder, body, parsed, portsEnv, ports, probe, missThreshold, tracked, timer, intervals, stops, background,
                   bundlers, lastScanTime, refresh, everConfirmed, silentRun, usage>>

\* kunobi_refresh handler up to `await scanner.scan()`: "noop" when scan()
\* returned at once, "awaiting" when it runs a cycle.
RefreshCall ==
    /\ refresh = "idle"
    /\ ScanCall
    /\ refresh' = IF Overlaps THEN "noop" ELSE "awaiting"
    /\ usage' = CASE usage = "fresh" -> "manual"
                   [] usage = "stopped" -> "started"
                   [] OTHER -> usage
    /\ stops' = [s \in StopIds |->
                    IF stops[s].pc = "closing"
                    THEN [stops[s] EXCEPT !.scanned = TRUE] ELSE stops[s]]
    /\ UNCHANGED <<phases, snapshot, now, enabled, shutdown, responder, body, parsed, portsEnv, ports, probe, missThreshold, tracked, timer, intervals, background,
                   bundlers, lastScanTime, everConfirmed, silentRun>>

\* The handler resumes after `await scanner.scan()` and returns
\* formatRefreshResult(scanner): "Scan complete. Current status: ...". From
\* "noop" no cycle has completed since the handler was called.
RefreshReturn ==
    /\ refresh \in {"noop", "done"}
    /\ refresh' = "idle"
    /\ UNCHANGED <<phases, snapshot, now, enabled, shutdown, responder, body, parsed, portsEnv, ports, probe, missThreshold, tracked, timer, intervals, scanning, scans, stops,
                   background, bundlers, lastScanTime, everConfirmed, silentRun, usage>>

\* The handler's scan() rejected: the handler throws.
RefreshThrow ==
    /\ refresh = "failed"
    /\ refresh' = "idle"
    /\ UNCHANGED <<phases, snapshot, now, enabled, shutdown, responder, body, parsed, portsEnv, ports, probe, missThreshold, tracked, timer, intervals, scanning, scans, stops,
                   background, bundlers, lastScanTime, everConfirmed, silentRun, usage>>

\* ------------------------------------------------------------------ stop()
\* A stop() that arms a timer where it should clear one.
ClearIntervalArms(n) == n + 1

\* clearInterval(this.timer)
ClearInterval(n) == IF timer THEN n - 1 ELSE n

\* A stop() that closes nothing.
CloseTasksNone(tr) == {}

\* The bundlers of [...this.tracked.entries()], each given
\* unregisterTools and close().
CloseTasks(tr) == {tr[i].bundler : i \in 1..Len(tr)}

\* this.tracked.clear()
ClearRegistry(tr) == <<>>

FreeStop == CHOOSE s \in StopIds : stops[s].pc = "idle" /\ \A j \in 1..(s - 1) : stops[j].pc # "idle"

\* stop() up to `await Promise.all(closeTasks)`; unclosed keeps the bundlers
\* of the entries tracked at the call on which close() has not completed,
\* rearmed whether start() has armed a timer since the call, scanned whether
\* the refresh tool has called scan() since the call.
StopEnter ==
    /\ \E s \in StopIds : stops[s].pc = "idle"
    /\ timer' = FALSE
    /\ intervals' = ClearInterval(intervals)
    /\ stops' = [stops EXCEPT ![FreeStop] =
                    [pc |-> "closing",
                     unclosed |-> {h \in TrackedBundlers(tracked) : IsOpen(bundlers, h)},
                     pending |-> CloseTasks(tracked),
                     rearmed |-> FALSE,
                     scanned |-> FALSE]]
    /\ UNCHANGED <<phases, snapshot, now, enabled, responder, body, parsed, portsEnv, ports, probe, missThreshold, tracked, scanning, scans, background, bundlers,
                   lastScanTime, refresh, everConfirmed, silentRun, usage>>

\* stop() called by a client of the scanner.
StopCall == StopEnter /\ UNCHANGED shutdown

\* One close task's `await bundler.close()` resolves.
StopCloseResolved(s, h) ==
    /\ stops[s].pc = "closing"
    /\ h \in stops[s].pending
    /\ stops' = [Closed(stops, h) EXCEPT ![s].pending = @ \ {h}]
    /\ bundlers' = Collect(Close(bundlers, h), Referred(tracked, scans, stops', background))
    /\ phases' = Fresh(phases, bundlers')
    /\ UNCHANGED <<snapshot, now, enabled, shutdown, responder, body, parsed, portsEnv, ports, probe, missThreshold, tracked, timer, intervals, scanning, scans, background,
                   lastScanTime, refresh, everConfirmed, silentRun, usage>>

\* What becomes of shutdown() when stop() s settles: the stop() it awaits
\* has resolved ("stopped") or rejected ("stopFailed").
ShutdownAfterStop(s, ok) ==
    IF shutdown.pc = "stopping" /\ shutdown.awaits = s
    THEN [shutdown EXCEPT !.pc = IF ok THEN "stopped" ELSE "stopFailed", !.awaits = 0]
    ELSE shutdown

\* One close task rejects: Promise.all and stop() reject, this.tracked is
\* not cleared, the other close() calls go on unobserved.
StopCloseRejected(s, h) ==
    /\ stops[s].pc = "closing"
    /\ h \in stops[s].pending
    /\ stops' = [stops EXCEPT ![s] = IdleStop]
    /\ background' = background \cup (stops[s].pending \ {h})
    /\ bundlers' = Collect(bundlers, Referred(tracked, scans, stops', background'))
    /\ phases' = Fresh(phases, bundlers')
    /\ shutdown' = ShutdownAfterStop(s, FALSE)
    /\ UNCHANGED <<snapshot, now, enabled, responder, body, parsed, portsEnv, ports, probe, missThreshold, tracked, timer, intervals, scanning, scans,
                   lastScanTime, refresh, everConfirmed, silentRun, usage>>

\* A close() call nobody awaits any more settles.
BackgroundSettle(h, ok) ==
    /\ h \in background
    /\ background' = background \ {h}
    /\ stops' = IF ok THEN Closed(stops, h) ELSE stops
    /\ bundlers' = Collect(IF ok THEN Close(bundlers, h) ELSE bundlers,
                           Referred(tracked, scans, stops', background'))
    /\ phases' = Fresh(phases, bundlers')
    /\ UNCHANGED <<snapshot, now, enabled, shutdown, responder, body, parsed, portsEnv, ports, probe, missThreshold, tracked, timer, intervals, scanning, scans,
                   lastScanTime, refresh, everConfirmed, silentRun, usage>>

\* `await Promise.all(closeTasks)` resolved: this.tracked.clear(), stop()
\* resolves.
StopResume(s) ==
    /\ stops[s].pc = "closing"
    /\ stops[s].pending = {}
    /\ tracked' = ClearRegistry(tracked)
    /\ stops' = [stops EXCEPT ![s] = IdleStop]
    /\ bundlers' = Collect(bundlers, Referred(tracked', scans, stops', background))
    /\ silentRun' = [v \in Variants |-> 0]
    /\ usage' = IF usage = "started" /\ ~stops[s].rearmed /\ ~stops[s].scanned
                THEN "stopped" ELSE usage
    /\ phases' = Fresh(phases, bundlers')
    /\ shutdown' = ShutdownAfterStop(s, TRUE)
    /\ UNCHANGED <<snapshot, now, enabled, responder, body, parsed, portsEnv, ports, probe, missThreshold, timer, intervals, scanning, scans, background,
                   lastScanTime, refresh, everConfirmed>>

\* ------------------------------------------------------------ specification
Next ==
    \/ Start
    \/ TimerTick
    \/ RefreshCall
    \/ RefreshReturn
    \/ RefreshThrow
    \/ StopCall
    \/ \E k \in 1..Len(scans) : ProbesSettle(k)
    \/ \E k \in 1..Len(scans) : AfterAdd(k)
    \/ \E k \in 1..Len(scans) : CloseResolved(k)
    \/ \E k \in 1..Len(scans) : CloseRejected(k)
    \/ \E k \in 1..Len(scans) : AfterRemove(k)
    \/ \E s \in StopIds : \E h \in stops[s].pending : StopCloseResolved(s, h)
    \/ \E s \in StopIds : \E h \in stops[s].pending : StopCloseRejected(s, h)
    \/ \E h \in background, ok \in BOOLEAN : BackgroundSettle(h, ok)
    \/ \E s \in StopIds : StopResume(s)

Spec == Init /\ [][Next]_vars

\* ---------------------------------------------------- readers of the scanner
\* getStates() and getLastScanTime() as functions of what they read: the
\* scanner is taken in any state of its registry with no cycle in flight, its
\* bundlers in any phase, and is read and changed from there. The history
\* variables are not followed.
Entries == [variant : Variants, bundler : BundlerIds, missCount : 0..(DefaultMissThreshold - 1)]

Registries ==
    {tr \in UNION {[1..n -> Entries] : n \in 0..Len(PortOrder)} :
        \A i, j \in 1..Len(tr) :
            i # j => tr[i].variant # tr[j].variant /\ tr[i].bundler # tr[j].bundler}

BundlersOf(tr) ==
    [h \in TrackedBundlers(tr) |->
        [name |-> tr[CHOOSE i \in 1..Len(tr) : tr[i].bundler = h].variant, closed |-> FALSE]]

InitSnapshot ==
    /\ missThreshold = DefaultMissThreshold
    /\ tracked \in Registries
    /\ bundlers = BundlersOf(tracked)
    /\ phases \in {ph \in [BundlerIds -> BundlerViews] : ph = Fresh(ph, bundlers)}
    /\ snapshot = NoSnapshot
    /\ timer = FALSE
    /\ intervals = 0
    /\ scanning = FALSE
    /\ scans = <<>>
    /\ stops = [s \in StopIds |-> IdleStop]
    /\ background = {}
    /\ lastScanTime = Never
    /\ now = 0
    /\ responder = NoResponder
    /\ body = NoBody
    /\ parsed = NotParsed
    /\ portsEnv = NoFilter
    /\ ports = NotRead
    /\ probe = NoProbe
    /\ enabled = GetScanConfigEnabled("unset")
    /\ shutdown = NoShutdown
    /\ refresh = "idle"
    /\ everConfirmed = {}
    /\ silentRun = [v \in Variants |-> 0]
    /\ usage = "fresh"

\* A caller takes getStates().
GetStates ==
    /\ snapshot' = Returned(getStates(tracked, phases))
    /\ UNCHANGED <<phases, now, enabled, shutdown, responder, body, parsed, portsEnv, ports, probe, missThreshold, tracked, timer, intervals, scanning, scans, stops,
                   background, bundlers, lastScanTime, refresh, everConfirmed, silentRun, usage>>

\* A caller takes getLastScanTime().
GetLastScanTime ==
    /\ getLastScanTime \in {Never} \cup Nat
    /\ UNCHANGED vars

\* The registry changes as scan() changes it: an entry is set, its counter
\* reset or incremented, or the entry deleted.
RegistryChange(v) ==
    /\ \/ /\ ~Has(tracked, v)
          /\ \E h \in BundlerIds \ DOMAIN bundlers :
                /\ tracked' = Append(tracked, [variant |-> v, bundler |-> h, missCount |-> 0])
                /\ bundlers' = BundlersOf(tracked')
       \/ /\ Has(tracked, v)
          /\ tracked' = ResetMiss(tracked, v)
          /\ UNCHANGED bundlers
       \/ /\ Has(tracked, v)
          /\ Get(tracked, v).missCount + 1 < DefaultMissThreshold
          /\ tracked' = SetMiss(tracked, v, Get(tracked, v).missCount + 1)
          /\ UNCHANGED bundlers
       \/ /\ Has(tracked, v)
          /\ tracked' = Delete(tracked, v)
          /\ bundlers' = BundlersOf(tracked')
    /\ phases' = Fresh(phases, bundlers')
    /\ UNCHANGED <<snapshot, now, enabled, shutdown, responder, body, parsed, portsEnv, ports, probe, missThreshold, timer, intervals, scanning, scans, stops,
                   background, lastScanTime, refresh, everConfirmed, silentRun, usage>>

\* A bundler connects, disconnects or learns of other tools.
BundlerEvent(h) ==
    /\ h \in DOMAIN bundlers
    /\ \E view \in BundlerViews : phases' = [phases EXCEPT ![h] = view]
    /\ UNCHANGED <<snapshot, now, enabled, shutdown, responder, body, parsed, portsEnv, ports, probe, missThreshold, tracked, timer, intervals, scanning, scans, stops,
                   background, bundlers, lastScanTime, refresh, everConfirmed, silentRun, usage>>

\* The holder of a returned Map deletes v from it.
CallerEdit(v) ==
    /\ snapshot # NoSnapshot
    /\ v \in DOMAIN Held(snapshot, tracked, phases)
    /\ IF snapshot.live
       THEN /\ Has(tracked, v)
            /\ tracked' = Delete(tracked, v)
            /\ UNCHANGED snapshot
       ELSE /\ snapshot' = [snapshot EXCEPT !.val = [u \in DOMAIN @ \ {v} |-> @[u]]]
            /\ UNCHANGED tracked
    /\ UNCHANGED <<phases, now, enabled, shutdown, responder, body, parsed, portsEnv, ports, probe, missThreshold, timer, intervals, scanning, scans, stops,
                   background, bundlers, lastScanTime, refresh, everConfirmed, silentRun, usage>>

NextSnapshot ==
    \/ GetStates
    \/ GetLastScanTime
    \/ \E v \in Variants : RegistryChange(v)
    \/ \E h \in BundlerIds : BundlerEvent(h)
    \/ \E v \in Variants : CallerEdit(v)

SpecSnapshot == InitSnapshot /\ [][NextSnapshot]_vars

\* ------------------------------------------------ connection establishment
\* The scanner with its timer and its cycles, and the connect() that
\* addVariant starts without awaiting it; a bundler retries on its own
\* (reconnect enabled, maxRetries infinite). Here the wall clock advances
\* between the cycles; under Spec it stands still.

\* A scanner that deletes the entry of a bundler whose connect() rejected.
CatchConnectDeletes(tr, h) == SelectSeq(tr, LAMBDA e : e.bundler # h)

\* bundler.connect().catch(() => {})
CatchConnect(tr, h) == tr

\* connect(), or a retry of it, settles on bundler h; the 'connected' handler
\* registers the tools and notifies, and touches nothing of the scanner.
ConnectSettles(h, ok) ==
    /\ IsOpen(bundlers, h)
    /\ phases[h].state \in {"idle", "disconnected"}
    /\ phases' = [phases EXCEPT ![h].state = IF ok THEN "connected" ELSE "disconnected"]
    /\ tracked' = IF ok THEN tracked ELSE CatchConnect(tracked, h)
    /\ UNCHANGED <<snapshot, now, enabled, shutdown, responder, body, parsed, portsEnv, ports, probe, missThreshold, timer, intervals, scanning, scans, stops,
                   background, bundlers, lastScanTime, refresh, everConfirmed, silentRun, usage>>

\* While removeVariant awaits close(), the bundler emits 'disconnected' to the
\* handler addVariant has wired: bundler.unregisterTools(this.server);
\* this.notifyToolsChanged(). sent counts the notifications of the teardown.
DisconnectedOnClose(k) ==
    /\ scans[k].pc = "closing"
    /\ scans[k].sent = 0
    /\ scans' = [scans EXCEPT ![k].sent = 1]
    /\ phases' = [phases EXCEPT ![scans[k].handle].state = "disconnected"]
    /\ UNCHANGED <<snapshot, now, enabled, shutdown, responder, body, parsed, portsEnv, ports, probe, missThreshold, tracked, timer, intervals, scanning, stops,
                   background, bundlers, lastScanTime, refresh, everConfirmed, silentRun, usage>>

\* The wall clock advances.
ClockTick ==
    /\ now < MaxClock
    /\ now' = now + 1
    /\ UNCHANGED <<phases, snapshot, enabled, shutdown, responder, body, parsed, portsEnv, ports, probe, missThreshold, tracked, timer, intervals, scanning, scans,
                   stops, background, bundlers, lastScanTime, refresh, everConfirmed, silentRun,
                   usage>>

NextConnect ==
    \/ Start
    \/ ClockTick
    \/ TimerTick
    \/ \E k \in 1..Len(scans) :
        \/ ProbesSettle(k)
        \/ AfterAdd(k)
        \/ CloseResolved(k)
        \/ CloseRejected(k)
        \/ AfterRemove(k)
        \/ DisconnectedOnClose(k)
    \/ \E h \in BundlerIds, ok \in BOOLEAN : ConnectSettles(h, ok)

SpecConnect == Init /\ [][NextConnect]_vars

\* ------------------------------------------------------------- the server
\* The main module: getScanConfig(), new VariantScanner, scanner.start(), and
\* shutdown() on SIGINT and SIGTERM.
InitServer ==
    /\ enabled \in {GetScanConfigEnabled(e) : e \in EnabledEnvValues}
    /\ shutdown = NoShutdown
    /\ missThreshold \in {GetScanConfigMissThreshold(e) : e \in EnvValues}
    /\ tracked = <<>>
    /\ timer = FALSE
    /\ intervals = 0
    /\ scanning = FALSE
    /\ scans = <<>>
    /\ stops = [s \in StopIds |-> IdleStop]
    /\ background = {}
    /\ bundlers = <<>>
    /\ lastScanTime = Never
    /\ now = 0
    /\ responder = NoResponder
    /\ body = NoBody
    /\ parsed = NotParsed
    /\ portsEnv = NoFilter
    /\ ports = NotRead
    /\ probe = NoProbe
    /\ refresh = "idle"
    /\ everConfirmed = {}
    /\ silentRun = [v \in Variants |-> 0]
    /\ phases = [h \in BundlerIds |-> IdleView]
    /\ snapshot = NoSnapshot
    /\ usage = "fresh"

\* scanner.start() of the main module.
Main ==
    /\ usage = "fresh"
    /\ Start

\* A shutdown() that arms no timeout.
SetTimeoutNever == FALSE

\* const timeout = setTimeout(() => process.exit(1), 5_000)
SetTimeout == TRUE

\* A shutdown() without its guard.
ShuttingDownNever == FALSE

\* if (shuttingDown) return;
ShuttingDown == shutdown.pc # "idle"

\* SIGINT or SIGTERM: shutdown() up to `await scanner.stop()`.
Signal ==
    /\ shutdown.signals < MaxSignals
    /\ IF ShuttingDown
       THEN /\ shutdown' = [shutdown EXCEPT !.signals = @ + 1]
            /\ UNCHANGED <<phases, snapshot, now, enabled, responder, body, parsed, portsEnv,
                           ports, probe, missThreshold, tracked, timer, intervals, scanning,
                           scans, stops, background, bundlers, lastScanTime, refresh,
                           everConfirmed, silentRun, usage>>
       ELSE /\ StopEnter
            /\ shutdown' = [shutdown EXCEPT !.pc = "stopping", !.timeout = SetTimeout,
                                            !.awaits = FreeStop, !.signals = @ + 1,
                                            !.stopCalls = @ + 1,
                                            !.timeouts = @ + (IF SetTimeout THEN 1 ELSE 0)]

\* shutdown() resumes after scanner.stop(): `await server.close()` when it
\* resolved; when it rejected, catch {}, clearTimeout(timeout), process.exit(0).
ShutdownResume ==
    /\ shutdown.pc \in {"stopped", "stopFailed"}
    /\ shutdown' = IF shutdown.pc = "stopped"
                   THEN [shutdown EXCEPT !.pc = "closing", !.closeCalls = @ + 1]
                   ELSE [shutdown EXCEPT !.pc = "exited", !.timeout = FALSE]
    /\ UNCHANGED <<phases, snapshot, now, enabled, responder, body, parsed, portsEnv, ports, probe, missThreshold, tracked, timer, intervals,
                   scanning, scans, stops, background, bundlers, lastScanTime, refresh,
                   everConfirmed, silentRun, usage>>

\* `await server.close()` settles: resolved or caught, clearTimeout(timeout),
\* process.exit(0).
ServerCloseSettles(ok) ==
    /\ shutdown.pc = "closing"
    /\ shutdown' = [shutdown EXCEPT !.pc = "exited", !.timeout = FALSE]
    /\ UNCHANGED <<phases, snapshot, now, enabled, responder, body, parsed, portsEnv, ports, probe, missThreshold, tracked, timer, intervals,
                   scanning, scans, stops, background, bundlers, lastScanTime, refresh,
                   everConfirmed, silentRun, usage>>

\* The timeout of shutdown() fires: process.exit(1).
TimeoutFires ==
    /\ shutdown.timeout
    /\ shutdown.pc # "exited"
    /\ shutdown' = [shutdown EXCEPT !.pc = "exited", !.timeout = FALSE]
    /\ UNCHANGED <<phases, snapshot, now, enabled, responder, body, parsed, portsEnv, ports, probe, missThreshold, tracked, timer, intervals,
                   scanning, scans, stops, background, bundlers, lastScanTime, refresh,
                   everConfirmed, silentRun, usage>>

\* The process has not exited: nothing runs in one that has.
Alive == shutdown.pc # "exited"

NextServer ==
    \/ Alive /\ Main
    \/ Alive /\ TimerTick
    \/ \E k \in 1..Len(scans) :
        \/ Alive /\ ProbesSettle(k)
        \/ Alive /\ AfterAdd(k)
        \/ Alive /\ CloseResolved(k)
        \/ Alive /\ CloseRejected(k)
        \/ Alive /\ AfterRemove(k)
    \/ Alive /\ Signal
    \/ \E s \in StopIds :
        \/ \E h \in BundlerIds : Alive /\ StopCloseResolved(s, h)
        \/ \E h \in BundlerIds : Alive /\ StopCloseRejected(s, h)
        \/ Alive /\ StopResume(s)
    \/ \E h \in BundlerIds, ok \in BOOLEAN : Alive /\ BackgroundSettle(h, ok)
    \/ Alive /\ ShutdownResume
    \/ \E ok \in BOOLEAN : Alive /\ ServerCloseSettles(ok)
    \/ Alive /\ TimeoutFires

\* A timeout that is armed fires unless it is cleared; nothing else is
\* required to happen: stop() and close() may never settle.
SpecServer == InitServer /\ [][NextServer]_vars /\ WF_vars(TimeoutFires)

\* ------------------------------------------- cycles over probeKunobiServer
\* One endpoint answers, the same way each time it is asked; nothing listens
\* on the other ports.
InitProbe ==
    /\ responder \in Responders
    /\ body = NoBody
    /\ parsed = NotParsed
    /\ portsEnv = NoFilter
    /\ ports = NotRead
    /\ probe = NoProbe
    /\ enabled = GetScanConfigEnabled("unset")
    /\ shutdown = NoShutdown
    /\ missThreshold = DefaultMissThreshold
    /\ tracked = <<>>
    /\ timer = FALSE
    /\ intervals = 0
    /\ scanning = FALSE
    /\ scans = <<>>
    /\ stops = [s \in StopIds |-> IdleStop]
    /\ background = {}
    /\ bundlers = <<>>
    /\ lastScanTime = Never
    /\ now = 0
    /\ refresh = "idle"
    /\ everConfirmed = {}
    /\ silentRun = [v \in Variants |-> 0]
    /\ phases = [h \in BundlerIds |-> IdleView]
    /\ snapshot = NoSnapshot
    /\ usage = "fresh"

\* What answers on the port of v.
ResponderAt(v) == IF v = responder.port THEN responder ELSE NoResponder

\* probeKunobiServer(`http://127.0.0.1:${port}/mcp`) of the cycle's probes
Probe(v) == probeKunobiServer(ResponderAt(v))

\* The probes of cycle k settle: `if (result !== null) results.set(...)`.
ProbeCycle(k) == ProbesSettleWith(k, {v \in Variants : Probe(v) # Absent})

NextProbe ==
    \/ Start
    \/ TimerTick
    \/ \E k \in 1..Len(scans) :
        \/ ProbeCycle(k)
        \/ AfterAdd(k)
    \/ \E h \in BundlerIds, ok \in BOOLEAN : ConnectSettles(h, ok)

SpecProbe == InitProbe /\ [][NextProbe]_vars

\* ------------------------------------------------- calls of parseJsonOrSse
InitParse ==
    /\ body \in Bodies
    /\ parsed = NotParsed
    /\ portsEnv = NoFilter
    /\ ports = NotRead
    /\ probe = NoProbe
    /\ responder = NoResponder
    /\ enabled = GetScanConfigEnabled("unset")
    /\ shutdown = NoShutdown
    /\ missThreshold = DefaultMissThreshold
    /\ tracked = <<>>
    /\ timer = FALSE
    /\ intervals = 0
    /\ scanning = FALSE
    /\ scans = <<>>
    /\ stops = [s \in StopIds |-> IdleStop]
    /\ background = {}
    /\ bundlers = <<>>
    /\ lastScanTime = Never
    /\ now = 0
    /\ refresh = "idle"
    /\ everConfirmed = {}
    /\ silentRun = [v \in Variants |-> 0]
    /\ phases = [h \in BundlerIds |-> IdleView]
    /\ snapshot = NoSnapshot
    /\ usage = "fresh"

\* await parseJsonOrSse(response), on a response with the body `body`
ParseCall ==
    /\ parsed = NotParsed
    /\ parsed' = parseJsonOrSse(Text(body))
    /\ UNCHANGED <<body, responder, enabled, shutdown, now, portsEnv, ports, probe, missThreshold, tracked, timer,
                   intervals, scanning, scans, stops, background, bundlers, lastScanTime,
                   refresh, everConfirmed, silentRun, phases, snapshot, usage>>

NextParse == ParseCall

SpecParse == InitParse /\ [][NextParse]_vars

\* ------------------------------------------------- calls of getScanConfig
InitConfig ==
    /\ body = NoBody
    /\ parsed = NotParsed
    /\ portsEnv \in PortEnvs
    /\ ports = NotRead
    /\ probe = NoProbe
    /\ responder = NoResponder
    /\ enabled = GetScanConfigEnabled("unset")
    /\ shutdown = NoShutdown
    /\ missThreshold = DefaultMissThreshold
    /\ tracked = <<>>
    /\ timer = FALSE
    /\ intervals = 0
    /\ scanning = FALSE
    /\ scans = <<>>
    /\ stops = [s \in StopIds |-> IdleStop]
    /\ background = {}
    /\ bundlers = <<>>
    /\ lastScanTime = Never
    /\ now = 0
    /\ refresh = "idle"
    /\ everConfirmed = {}
    /\ silentRun = [v \in Variants |-> 0]
    /\ phases = [h \in BundlerIds |-> IdleView]
    /\ snapshot = NoSnapshot
    /\ usage = "fresh"

\* const scanConfig = getScanConfig(): its ports
GetScanConfig ==
    /\ ~ports.read
    /\ ports' = [read |-> TRUE, table |-> getScanConfigPorts(portsEnv.set, EnvText(portsEnv.items))]
    /\ UNCHANGED <<portsEnv, body, parsed, responder, enabled, shutdown, now, probe, missThreshold, tracked,
                   timer, intervals, scanning, scans, stops, background, bundlers, lastScanTime,
                   refresh, everConfirmed, silentRun, phases, snapshot, usage>>

NextConfig == GetScanConfig

SpecConfig == InitConfig /\ [][NextConfig]_vars

\* -------------------------------------------- the requests of one probe
\* The endpoint answers as `responder` says; the response to initialize has
\* the session header probe.token.
InitRequests ==
    /\ body = NoBody
    /\ parsed = NotParsed
    /\ portsEnv = NoFilter
    /\ ports = NotRead
    /\ probe \in {[NoProbe EXCEPT !.token = t] : t \in Tokens}
    /\ responder \in Responders
    /\ enabled = GetScanConfigEnabled("unset")
    /\ shutdown = NoShutdown
    /\ missThreshold = DefaultMissThreshold
    /\ tracked = <<>>
    /\ timer = FALSE
    /\ intervals = 0
    /\ scanning = FALSE
    /\ scans = <<>>
    /\ stops = [s \in StopIds |-> IdleStop]
    /\ background = {}
    /\ bundlers = <<>>
    /\ lastScanTime = Never
    /\ now = 0
    /\ refresh = "idle"
    /\ everConfirmed = {}
    /\ silentRun = [v \in Variants |-> 0]
    /\ phases = [h \in BundlerIds |-> IdleView]
    /\ snapshot = NoSnapshot
    /\ usage = "fresh"

\* The probe returns r.
Returns(r) == [probe EXCEPT !.pc = "done", !.result = r]

\* The probe sends a request of method m and awaits the response.
Sends(m, session, pc) ==
    [probe EXCEPT !.pc = pc, !.requests = Append(@, [method |-> m, session |-> session])]

\* probeKunobiServer(url) up to the await of the fetch of `initialize`.
ProbeCall ==
    /\ probe.pc = "idle"
    /\ probe' = Sends("initialize", NoSession, "initialize")
    /\ UNCHANGED <<portsEnv, ports, body, parsed, responder, enabled, shutdown, now, missThreshold,
                   tracked, timer, intervals, scanning, scans, stops, background, bundlers,
                   lastScanTime, refresh, everConfirmed, silentRun, phases, snapshot, usage>>

\* The fetch of `initialize` settles: up to the await of the fetch of
\* `notifications/initialized`, or to the return.
InitializeSettles ==
    /\ probe.pc = "initialize"
    /\ probe' =
        IF responder.init \in {"refused", "timeout", "unparseable"} THEN Returns(Caught)
        ELSE IF responder.init = "status" THEN Returns(Absent)
        ELSE IF responder.name.type = "number" THEN Returns(Caught)
        ELSE LET serverName == IF responder.name.type = "undefined" THEN <<>>
                               ELSE responder.name.text
             IN  IF ~IdentityAccepted(serverName) THEN Returns(Absent)
                 ELSE [Sends("notifications/initialized", sessionHeaders(probe.token),
                             "initialized") EXCEPT !.serverName = serverName]
    /\ UNCHANGED <<portsEnv, ports, body, parsed, responder, enabled, shutdown, now, missThreshold,
                   tracked, timer, intervals, scanning, scans, stops, background, bundlers,
                   lastScanTime, refresh, everConfirmed, silentRun, phases, snapshot, usage>>

\* The fetch of `notifications/initialized` settles: up to the await of the
\* fetch of `tools/list`, or to the catch.
InitializedSettles ==
    /\ probe.pc = "initialized"
    /\ probe' = IF responder.inited = "throws" THEN Returns(Caught)
                 ELSE Sends("tools/list", sessionHeaders(probe.token), "tools/list")
    /\ UNCHANGED <<portsEnv, ports, body, parsed, responder, enabled, shutdown, now, missThreshold,
                   tracked, timer, intervals, scanning, scans, stops, background, bundlers,
                   lastScanTime, refresh, everConfirmed, silentRun, phases, snapshot, usage>>

\* The fetch of `tools/list` settles: to the return.
ToolsListSettles ==
    /\ probe.pc = "tools/list"
    /\ probe' =
        CASE responder.list.kind \in {"throws", "unparseable", "notArray"} -> Returns(Caught)
          [] responder.list.kind = "status" -> Returns(ToolsNotOk(probe.serverName))
          [] responder.list.kind = "missing" -> Returns(NoTools(probe.serverName))
          [] OTHER -> Returns(Confirmed(responder.list.tools, probe.serverName))
    /\ UNCHANGED <<portsEnv, ports, body, parsed, responder, enabled, shutdown, now, missThreshold,
                   tracked, timer, intervals, scanning, scans, stops, background, bundlers,
                   lastScanTime, refresh, everConfirmed, silentRun, phases, snapshot, usage>>

NextRequests ==
    \/ ProbeCall
    \/ InitializeSettles
    \/ InitializedSettles
    \/ ToolsListSettles

SpecRequests == InitRequests /\ [][NextRequests]_vars

\* ------------------------------------------------------------- properties
\* A cycle is in flight: an activation of scan() is suspended in it.
InFlight == Len(scans) > 0

\* The activation k of scan() is tearing down an entry that is still tracked.
TearingDown(k) ==
    /\ scans[k].pc = "closing"
    /\ Has(tracked, scans[k].target)
    /\ Get(tracked, scans[k].target).bundler = scans[k].handle

\* C1 (as stated): between cycles no tracked instance that was silent in the
\* last cycle has a miss counter at or above the threshold, because an
\* instance whose incremented counter reaches the threshold is torn down in
\* that cycle.
C1_ReachedThresholdIsTornDown ==
    ~InFlight =>
        \A i \in 1..Len(tracked) :
            silentRun[tracked[i].variant] >= 1 => tracked[i].missCount < missThreshold

\* C2 (amended): a cycle tears an instance down only when its miss counter has
\* reached the threshold, after at least `threshold` consecutive silent
\* cycles and never after none; one silent cycle is enough exactly when the
\* configured threshold is 1 or less.
C2_TeardownOnlyAfterThresholdMisses ==
    \A k \in 1..Len(scans) :
        TearingDown(k) =>
            /\ Get(tracked, scans[k].target).missCount >= missThreshold
            /\ silentRun[scans[k].target] >= missThreshold
            /\ silentRun[scans[k].target] >= 1
            /\ silentRun[scans[k].target] = 1 => missThreshold <= 1

\* An instance is being torn down under the default threshold, after three
\* silent cycles in a row.
C2_Witness ==
    \E k \in 1..Len(scans) :
        TearingDown(k) /\ missThreshold = DefaultMissThreshold /\ silentRun[scans[k].target] = 3

\* C2 (as stated): for every threshold getScanConfig can produce, a cycle
\* never tears down an instance after a single silent cycle.
C2_SingleMissNeverTearsDown ==
    \A k \in 1..Len(scans) : TearingDown(k) => silentRun[scans[k].target] >= 2

\* C3: between cycles, a tracked instance whose probe returned non-null in
\* the last cycle (or that was created in it) has a miss counter of exactly 0.
C3_ConfirmedResetsMissCount ==
    ~InFlight =>
        \A i \in 1..Len(tracked) :
            silentRun[tracked[i].variant] = 0 => tracked[i].missCount = 0

\* A cycle has completed in which one tracked instance responded and another
\* stayed silent.
C3_Witness ==
    /\ ~InFlight
    /\ lastScanTime # Never
    /\ \E i, j \in 1..Len(tracked) :
        /\ silentRun[tracked[i].variant] = 0 /\ tracked[i].missCount = 0
        /\ silentRun[tracked[j].variant] >= 1 /\ tracked[j].missCount >= 1

\* C4 (as stated): with threshold 3, between cycles a tracked instance has a
\* miss counter of 1 after a silent cycle that followed a confirmed one, and
\* of 0 after a confirmed cycle.
C4_AlternationCounts ==
    (missThreshold = 3 /\ ~InFlight) =>
        \A i \in 1..Len(tracked) :
            /\ silentRun[tracked[i].variant] = 0 => tracked[i].missCount = 0
            /\ silentRun[tracked[i].variant] = 1 => tracked[i].missCount = 1

\* C5: an endpoint whose probe has never returned non-null is not tracked, no
\* bundler exists for it, and getStates() reports it as not_detected.
C5_NeverConfirmedNeverTracked ==
    \A v \in Variants \ everConfirmed :
        /\ ~Has(tracked, v)
        /\ \A h \in DOMAIN bundlers : bundlers[h].name # v
        /\ getStates(tracked, phases)[v].status = "not_detected"

\* Cycles have completed in which "dev" responded and "e2e" never did: only
\* "dev" is tracked.
C5_Witness ==
    /\ everConfirmed = {"dev"}
    /\ TrackedNames(tracked) = {"dev"}
    /\ ~InFlight
    /\ lastScanTime # Never
    /\ getStates(tracked, phases)["e2e"].status = "not_detected"

\* C6: at most one activation of scan() is ever in a cycle, the flag tells
\* whether one is, and a timer tick, start() or manual scan arriving while a
\* cycle is in flight starts no probes and leaves the registry, the miss
\* counters, the bundlers and the last scan time as they are.
C6_OneCycleInFlight ==
    /\ [](Len(scans) <= 1 /\ (scanning <=> InFlight))
    /\ [][(InFlight /\ (TimerTick \/ Start \/ RefreshCall))
            => UNCHANGED <<tracked, scans, scanning, bundlers, lastScanTime>>]_vars

\* The refresh tool called scan() while a cycle was in flight and got an
\* immediate return; that cycle is still the only one.
C6_Witness == refresh = "noop" /\ Len(scans) = 1 /\ scanning

\* C7 (as stated): the refresh handler never returns while no cycle has
\* completed since it called scan().
C7_ReturnsAfterCycle == [][~(refresh = "noop" /\ refresh' = "idle")]_vars

\* C8 (as stated): no stop() is awaiting its close() calls while a cycle is
\* in flight.
C8_StopExcludesCycle == ~(InFlight /\ \E s \in StopIds : stops[s].pc = "closing")

\* C9 (amended): stop() clears the timer when it is called; when it resolves,
\* close() has completed on the bundler of every instance that was tracked at
\* the call, the registry is empty, and a timer is armed only if start() was
\* called while stop() was pending.
C9_StopPostcondition ==
    /\ [][StopCall => (~timer' /\ intervals' = 0)]_vars
    /\ [][\A s \in StopIds :
            StopResume(s) =>
                /\ stops[s].unclosed = {}
                /\ tracked' = <<>>
                /\ timer' => stops[s].rearmed]_vars

\* A stop() called with two instances tracked has had both bundlers closed
\* and is about to resolve.
C9_Witness ==
    \E s \in StopIds :
        /\ stops[s].pc = "closing"
        /\ stops[s].pending = {}
        /\ stops[s].unclosed = {}
        /\ Len(tracked) = 2
        /\ \A i \in 1..Len(tracked) : ~IsOpen(bundlers, tracked[i].bundler)

\* C9 (as stated): when stop() resolves the timer is not armed.
C9_TimerDisarmedAtResolution == [][\A s \in StopIds : StopResume(s) => ~timer']_vars

\* C10 (amended): while neither start() nor a manual scan has been called,
\* a stop() has nothing to close and so cannot reject, the registry is
\* empty, no bundler exists and no timer is armed.
C10_StopOnUnusedScanner ==
    usage = "fresh" =>
        /\ tracked = <<>>
        /\ bundlers = <<>>
        /\ ~timer /\ intervals = 0
        /\ background = {}
        /\ \A s \in StopIds : stops[s].pending = {} /\ stops[s].unclosed = {}

\* stop() was called on an unused scanner and awaits Promise.all([]).
C10_Witness == usage = "fresh" /\ \E s \in StopIds : stops[s].pc = "closing"

\* C10 (as stated): on a scanner on which start() was never called, a stop()
\* has no bundler to close.
C10_StopOnNeverStartedClosesNothing ==
    usage \in {"fresh", "manual"} => \A s \in StopIds : stops[s].pending = {}

\* C11 (as stated): a stop() that follows a resolved stop(), with neither
\* start() nor scan() called in between, does not reject.
C11_SecondStopResolves ==
    [][usage = "stopped" =>
        \A s \in StopIds : \A h \in stops[s].pending : ~StopCloseRejected(s, h)]_vars

\* C12: at most one interval timer is ever armed, this.timer tells whether
\* one is, and start() called while one is armed arms nothing, starts no
\* cycle and changes neither registry nor bundlers.
C12_StartIdempotent ==
    /\ [](intervals <= 1 /\ (timer <=> intervals = 1))
    /\ [][(timer /\ Start)
            => UNCHANGED <<timer, intervals, scans, scanning, tracked, bundlers>>]_vars

\* The scheduler is running between two cycles: a start() here is the
\* repeated call.
C12_Witness == timer /\ intervals = 1 /\ ~InFlight /\ lastScanTime # Never

\* C13 (amended): start() called with no timer armed arms exactly one timer
\* and, in the same step, begins a cycle with fresh probes unless a cycle is
\* already in flight, in which case it begins none.
C13_StartScansThenArms ==
    [][(~timer /\ Start) =>
        /\ timer' /\ intervals' = 1
        /\ IF InFlight
           THEN UNCHANGED <<scans, scanning>>
           ELSE scans' = <<Probing>> /\ scanning']_vars

\* start() has just begun the first cycle and armed the timer.
C13_Witness ==
    /\ timer /\ intervals = 1
    /\ usage = "started"
    /\ scans = <<Probing>>
    /\ lastScanTime = Never
    /\ tracked = <<>>

\* C13 (as stated): every start() called with no timer armed begins a cycle.
C13_StartAlwaysBeginsCycle ==
    [][(~timer /\ Start) => Len(scans') = Len(scans) + 1]_vars

\* C14: getLastScanTime() is null at construction; it changes only in the
\* step in which a cycle ends and the in-flight flag is cleared, never to
\* an earlier time; and every cycle that runs to its end leaves the time at
\* which it ends.
C14_LastScanTime ==
    /\ getLastScanTime = Never
    /\ [][/\ getLastScanTime' # getLastScanTime => (scanning /\ ~scanning' /\ Len(scans') < Len(scans))
          /\ getLastScanTime' >= getLastScanTime
          /\ (Len(scans') < Len(scans) /\ ~\E k \in 1..Len(scans) : CloseRejected(k))
                => getLastScanTime' = now]_vars

\* A cycle has completed after the clock advanced.
C14_Witness == getLastScanTime > 0 /\ ~InFlight

\* C15: every snapshot has exactly one entry for each entry of the endpoint
\* table; its status is one of not_detected, connecting, connected,
\* disconnected; it is not_detected exactly when the endpoint is untracked, and
\* otherwise the phase of the endpoint's bundler, idle being reported as
\* connecting. With an empty registry, as before the first cycle, every entry
\* is not_detected.
C15_SnapshotStatus ==
    [][GetStates =>
        LET s == Held(snapshot', tracked', phases') IN
        /\ DOMAIN s = DOMAIN DEFAULT_VARIANT_PORTS
        /\ \A v \in DOMAIN s :
            /\ s[v].port = DEFAULT_VARIANT_PORTS[v]
            /\ s[v].status \in {"not_detected", "connecting", "connected", "disconnected"}
            /\ s[v].status = "not_detected" <=> ~Has(tracked, v)
            /\ Has(tracked, v) =>
                LET state == phases[Get(tracked, v).bundler].state IN
                s[v].status = IF state = "idle" THEN "connecting" ELSE state
        /\ tracked = <<>> => \A v \in DOMAIN s : s[v].status = "not_detected"]_vars

C15_Witness ==
    /\ snapshot # NoSnapshot
    /\ DOMAIN snapshot.val = Variants
    /\ snapshot.val = getStates(tracked, phases)
    /\ \E v, u \in Variants :
        /\ Has(tracked, v) /\ phases[Get(tracked, v).bundler].state = "idle"
        /\ snapshot.val[v].status = "connecting"
        /\ ~Has(tracked, u) /\ snapshot.val[u].status = "not_detected"

\* C16: taking a snapshot or reading the last-scan time changes nothing of the
\* scanner; what the holder of a returned snapshot reads in it is not altered
\* by later changes of the registry or of the bundlers, and what the holder
\* changes in it does not alter the registry.
C16_SnapshotIsCopy ==
    /\ [][(GetStates \/ GetLastScanTime) =>
            UNCHANGED <<now, enabled, shutdown, responder, body, parsed, portsEnv, ports, probe, missThreshold, tracked, timer, intervals, scanning, scans, stops,
                        background, bundlers, lastScanTime, phases>>]_vars
    /\ [][(snapshot # NoSnapshot /\ <<tracked, phases>>' # <<tracked, phases>>) =>
            Held(snapshot', tracked', phases') = Held(snapshot, tracked, phases)]_vars
    /\ [][(\E v \in Variants : CallerEdit(v)) => UNCHANGED <<tracked, bundlers, phases>>]_vars

C16_Witness ==
    /\ snapshot # NoSnapshot
    /\ ~snapshot.live
    /\ DOMAIN snapshot.val = {"dev"}
    /\ snapshot.val["dev"].status = "not_detected"
    /\ Has(tracked, "dev") /\ Has(tracked, "e2e")

\* C17 (as stated): when the close() of a teardown rejects, the record of the
\* instance is removed from the registry all the same.
C17_FailedCloseStillRemoves ==
    [][\A k \in 1..Len(scans) :
        CloseRejected(k) => ~Has(tracked', scans[k].target)]_vars

\* C18 (as stated): no activation of scan() ends by rejecting, and the refresh
\* handler never sees the scan() it awaits reject.
C18_CycleNeverThrows ==
    /\ [][\A k \in 1..Len(scans) : ~CloseRejected(k)]_vars
    /\ [](refresh # "failed")

\* C19 (amended): a connect() that fails leaves the TrackedInstance that
\* addVariant has set: at the end of a cycle every address confirmed in it is
\* tracked with an open handle, whether or not the connect() of the handle
\* failed, and an instance whose handle failed to connect keeps that handle for
\* as long as it is tracked; the scanner creates no other one, the handle
\* retries by itself.
C19_FailedConnectStaysTracked ==
    /\ [][\A k \in 1..Len(scans) :
            (Len(scans') < Len(scans) /\ scans[k].pc # "probing") =>
                \A v \in scans[k].results :
                    Has(tracked', v) /\ IsOpen(bundlers', Get(tracked', v).bundler)]_vars
    /\ [][\A i \in 1..Len(tracked) :
            (phases[tracked[i].bundler].state = "disconnected" /\ Has(tracked', tracked[i].variant))
                => Get(tracked', tracked[i].variant).bundler = tracked[i].bundler]_vars
    /\ [][\A h \in BundlerIds :
            ConnectSettles(h, FALSE) => UNCHANGED <<tracked, bundlers, scans>>]_vars

\* An instance whose handle failed to connect is tracked between cycles, its
\* counter at 0.
C19_Witness ==
    /\ ~InFlight
    /\ lastScanTime # Never
    /\ \E i \in 1..Len(tracked) :
        /\ phases[tracked[i].bundler].state = "disconnected"
        /\ tracked[i].missCount = 0

\* C19 (as stated): at the end of a cycle no tracked instance has a handle
\* whose connection establishment failed.
C19_FailedConnectLeavesNoInstance ==
    [][Len(scans') < Len(scans) =>
        \A i \in 1..Len(tracked') : phases'[tracked'[i].bundler].state # "disconnected"]_vars

\* C20: a catalog-change notification that is not delivered, because the
\* promise of sendToolListChanged() rejects or the call throws, leaves the
\* entry deleted, lets scan() resume and go on to its end or to its next
\* teardown, and is not sent again.
C20_NotificationFailureSwallowed ==
    /\ [][\A k \in 1..Len(scans) :
            CloseResolved(k) =>
                /\ ~Has(tracked', scans[k].target)
                /\ Len(scans') = Len(scans)
                /\ scans'[k].pc = "removed"
                /\ scanning' = scanning]_vars
    /\ [](\A k \in 1..Len(scans) : scans[k].pc = "removed" => ENABLED AfterRemove(k))
    /\ [][\A k \in 1..Len(scans) :
            (scans[k].pc = "removed" /\ scans[k].notified # "delivered" /\ AfterRemove(k)) =>
                /\ ~Has(tracked', scans[k].target)
                /\ \A j \in 1..Len(scans') : scans'[j].notified = "none"
                /\ \/ Len(scans') < Len(scans) /\ ~scanning' /\ lastScanTime' # Never
                   \/ Len(scans') = Len(scans) /\ scans'[k].pc = "closing"]_vars

C20_Witness ==
    \E k \in 1..Len(scans) :
        /\ scans[k].pc = "removed"
        /\ scans[k].notified = "threw"
        /\ ~Has(tracked, scans[k].target)
        /\ tracked # <<>>

\* C21 (as stated): the teardown of an instance sends at most one
\* catalog-change notification, also when close() delivers 'disconnected' to
\* the handler wired by addVariant.
C21_OneNotificationPerTeardown ==
    \A k \in 1..Len(scans) : scans[k].sent <= 1

\* C22: once a termination signal has started shutdown() the process exits,
\* whether scanner.stop() and server.close() resolve, reject or never settle:
\* from the call to the exit the timeout is armed.
C22_ShutdownTerminates ==
    /\ [](shutdown.pc \notin {"idle", "exited"} => shutdown.timeout)
    /\ (shutdown.pc # "idle") ~> (shutdown.pc = "exited")

\* The process has exited by the timeout, the stop() of shutdown() still
\* awaiting a close().
C22_Witness ==
    /\ shutdown.pc = "exited"
    /\ \E s \in StopIds : stops[s].pc = "closing" /\ stops[s].pending # {}

\* C24 (as stated): with MCP_KUNOBI_ENABLED set to "false" no timer is armed,
\* no cycle begins and no instance is tracked.
C24_DisabledNeverScans ==
    ~enabled => ~timer /\ intervals = 0 /\ scans = <<>> /\ tracked = <<>>

\* C23 (as stated): an instance that has been silent for `threshold` cycles
\* in a row is torn down in the last of them: between cycles no tracked
\* instance has that many silent cycles behind it.
C23_SilentInstanceRemoved ==
    ~InFlight =>
        \A v \in Variants : Has(tracked, v) => silentRun[v] < Max(missThreshold, 1)

\* The initialize exchange of the responder fails: no connection, a timeout, a
\* status that is no success, or a body that does not parse.
InitializeFails == responder.init \in {"refused", "timeout", "status", "unparseable"}

\* The identity the responder reports has the token "kunobi" in it, whatever
\* the case of its letters.
HasToken ==
    /\ responder.name.type = "string"
    /\ \E i \in 1..Len(responder.name.text) :
        /\ i + 5 <= Len(responder.name.text)
        /\ responder.name.text[i] \in {"k", "K"}
        /\ responder.name.text[i + 1] \in {"u", "U"}
        /\ responder.name.text[i + 2] \in {"n", "N"}
        /\ responder.name.text[i + 3] \in {"o", "O"}
        /\ responder.name.text[i + 4] \in {"b", "B"}
        /\ responder.name.text[i + 5] \in {"i", "I"}

\* A cycle has completed.
CycleDone == lastScanTime # Never

\* C25: a probe returns a confirmation or Absent and never throws; when the
\* connection is refused, the request times out, the status is no success, the
\* body does not parse or the identity is not accepted it returns Absent, and
\* the cycle takes each of them as no instance: nothing is found, tracked or
\* created.
C25_ProbeNeverThrows ==
    /\ \A v \in Variants : Probe(v).kind \in {"absent", "confirmed"}
    /\ InitializeFails \/ ~HasToken =>
        /\ \A v \in Variants : Probe(v) = Absent
        /\ \A k \in 1..Len(scans) : scans[k].results = {}
        /\ tracked = <<>>
        /\ bundlers = <<>>
        /\ everConfirmed = {}

\* A cycle has completed against a responder whose initialize body does not
\* parse.
C25_Witness ==
    /\ responder.init = "unparseable"
    /\ HasToken
    /\ CycleDone
    /\ tracked = <<>>

\* C26: a responder whose reported identity has no "kunobi" in it, or that
\* reports none, is never adopted: its probe returns Absent and neither a
\* TrackedInstance nor a handle is made for it, however well formed its
\* responses are.
C26_ForeignServiceNeverAdopted ==
    ~HasToken =>
        /\ Probe(responder.port) = Absent
        /\ ~Has(tracked, responder.port)
        /\ responder.port \notin everConfirmed
        /\ bundlers = <<>>

\* A cycle has completed against "some-other-service", all of whose responses
\* are well formed.
C26_Witness ==
    /\ ~HasToken
    /\ responder.name.type = "string"
    /\ Len(responder.name.text) > Len(Kunobi)
    /\ responder.init = "ok"
    /\ responder.inited = "ok"
    /\ responder.list.kind = "ok"
    /\ responder.list.tools # <<>>
    /\ CycleDone
    /\ tracked = <<>>

\* The responder has confirmed its identity and taken the initialized
\* notification: the probe has its response to tools/list.
IdentityConfirmed == responder.init = "ok" /\ HasToken /\ responder.inited = "ok"

\* C27: when, the identity confirmed, the response to tools/list has a status
\* that is no success, the probe returns a confirmation with no tools and the
\* reported identity, and the cycle that completes has adopted the instance.
C27_ListStatusStillConfirmed ==
    IdentityConfirmed /\ responder.list.kind = "status" =>
        /\ Probe(responder.port) = Confirmed(<<>>, responder.name.text)
        /\ CycleDone => Has(tracked, responder.port)

\* A cycle has completed and adopted "Kunobi Dev", whose tools/list has a
\* status that is no success.
C27_Witness ==
    /\ IdentityConfirmed
    /\ responder.list.kind = "status"
    /\ Len(responder.name.text) > Len(Kunobi)
    /\ CycleDone
    /\ Has(tracked, responder.port)

\* The response to tools/list has a success status and a malformed body: one
\* that does not parse, one that parses and has no list of tools, or one whose
\* list is no array.
ListMalformed == responder.list.kind \in {"unparseable", "missing", "notArray"}

\* C28 (as stated): when, the identity confirmed, the response to tools/list is
\* malformed, the probe returns a confirmation with no tools.
C28_MalformedListConfirmed ==
    IdentityConfirmed /\ ListMalformed =>
        Probe(responder.port) = Confirmed(<<>>, responder.name.text)

\* C28 (amended): when, the identity confirmed, the body of the response to
\* tools/list parses and has no list of tools, the probe returns a
\* confirmation with no tools and the instance is adopted; when the body does
\* not parse, or its list is no array, the probe returns Absent
\* and nothing is adopted.
C28_MalformedListByKind ==
    IdentityConfirmed =>
        /\ responder.list.kind = "missing" =>
            /\ Probe(responder.port) = Confirmed(<<>>, responder.name.text)
            /\ CycleDone => Has(tracked, responder.port)
        /\ responder.list.kind \in {"unparseable", "notArray"} =>
            /\ Probe(responder.port) = Absent
            /\ tracked = <<>>
            /\ bundlers = <<>>

\* A cycle has completed and adopted an instance whose tools/list body parses
\* and has no list of tools.
C28_Witness ==
    /\ IdentityConfirmed
    /\ responder.list.kind = "missing"
    /\ CycleDone
    /\ Has(tracked, responder.port)
    /\ Probe(responder.port).tools = <<>>

\* C29: for a JSON text J on one line, the parser returns for the body
\* "data: " J followed by blank lines and further stream lines, with white
\* space around it, the value it returns for the plain body J: the value of J.
C29_StreamParsesAsPlain ==
    parsed # NotParsed /\ body.payload \in JsonTexts =>
        /\ parsed.ok
        /\ parsed = parseJsonOrSse(body.payload)
        /\ parsed = JSONParse(body.payload)

\* The parser has returned the value of the payload of a stream with white
\* space before it and a further data line after it.
C29_Witness ==
    /\ parsed.ok
    /\ body.marker
    /\ body.lead # <<>>
    /\ Len(body.tail) > 4
    /\ Includes(body.tail, Marker)

\* C30 (as stated): the miss threshold the scanner is constructed with from
\* the environment is a positive integer, whatever the value of
\* MCP_KUNOBI_MISS_THRESHOLD.
C30_ThresholdPositiveInteger == missThreshold \in Nat \ {0}

\* The number a word of the filter denotes, -1 if it denotes none.
WordPort(w) ==
    CASE w = <<"3", "4", "0", "0">> -> 3400
      [] w = <<"3", "6", "0", "0">> -> 3600
      [] w = <<"1", "2", "3", "4">> -> 1234
      [] w = <<"3", "4">> -> 34
      [] OTHER -> 0 - 1

\* The ports the filter lists.
ListedPorts == {WordPort(portsEnv.items[i].word) : i \in 1..Len(portsEnv.items)}

\* No filter is set: MCP_KUNOBI_PORTS is unset or empty.
NoFilterSet == ~portsEnv.set \/ (Len(portsEnv.items) = 1 /\ ItemText(portsEnv.items[1]) = <<>>)

\* C31: the ports of the scan configuration are the whole default table when
\* no filter is set, and otherwise the entries of the default table whose
\* port the filter lists: every name is a name of the default table and has
\* its default port.
C31_ActiveTableIsFilteredDefault ==
    ports.read =>
        /\ DOMAIN ports.table \subseteq Variants
        /\ \A v \in DOMAIN ports.table : ports.table[v] = DEFAULT_VARIANT_PORTS[v]
        /\ NoFilterSet => DOMAIN ports.table = Variants
        /\ ~NoFilterSet =>
            DOMAIN ports.table = {v \in Variants : DEFAULT_VARIANT_PORTS[v] \in ListedPorts}

\* getScanConfig() has returned one entry of the table for a filter of the
\* port of that entry, with a space, and a port that is not in the table.
C31_Witness ==
    /\ ports.read
    /\ Len(portsEnv.items) = 2
    /\ portsEnv.items[1].pad = "lead"
    /\ ListedPorts = {3600, 1234}
    /\ DOMAIN ports.table = {"e2e"}

\* The bundlers of endpoint v that have been created and not closed.
OpenFor(v) == {h \in DOMAIN bundlers : IsOpen(bundlers, h) /\ bundlers[h].name = v}

\* C32 (as stated): every endpoint has at most one bundler that has been
\* created and not closed, and it is the bundler of the endpoint's entry in
\* this.tracked: no endpoint that is not tracked has an open bundler.
C32_OneOwnedHandlePerName ==
    \A v \in Variants :
        /\ Cardinality(OpenFor(v)) <= 1
        /\ \A h \in OpenFor(v) : Has(tracked, v) /\ Get(tracked, v).bundler = h

\* C33 (as stated): once a stop() has resolved, and until start() or a manual
\* scan is called, nothing is tracked.
C33_QuiescentAfterStop == usage = "stopped" => tracked = <<>>

\* The step is one of cycle k: it resumes at one of the awaits of scan().
CycleStep(k) ==
    \/ ProbesSettle(k)
    \/ AfterAdd(k)
    \/ CloseResolved(k)
    \/ CloseRejected(k)
    \/ AfterRemove(k)

\* The endpoints cycle k finds confirmed, in a step of the cycle: those its
\* probes return for when they settle in the step, its results after that.
ConfirmedIn(k) ==
    IF scans[k].pc = "probing"
    THEN {v \in Variants : silentRun'[v] = 0 /\ Has(tracked, v)}
    ELSE scans[k].results

\* C34: a step of a cycle leaves an instance that is tracked and that the
\* cycle finds confirmed with its entry, its bundler and what the bundler
\* answers; no bundler is created or closed for it, and its miss counter is
\* left as it is or set to 0.
C34_ConfirmedTrackedOnlyReset ==
    [][\A k \in 1..Len(scans) :
        CycleStep(k) =>
            \A v \in ConfirmedIn(k) :
                Has(tracked, v) =>
                    /\ Has(tracked', v)
                    /\ Get(tracked', v).bundler = Get(tracked, v).bundler
                    /\ Get(tracked', v).missCount \in {Get(tracked, v).missCount, 0}
                    /\ Get(tracked, v).bundler \in DOMAIN bundlers'
                    /\ bundlers'[Get(tracked, v).bundler] = bundlers[Get(tracked, v).bundler]
                    /\ phases'[Get(tracked, v).bundler] = phases[Get(tracked, v).bundler]
                    /\ {h \in DOMAIN bundlers' : bundlers'[h].name = v}
                        = {h \in DOMAIN bundlers : bundlers[h].name = v}]_vars

\* A cycle has reset the counter of dev, tracked and connected, and gone on to
\* add e2e.
C34_Witness ==
    \E k \in 1..Len(scans) :
        /\ scans[k].pc = "added"
        /\ "dev" \in scans[k].reset
        /\ Has(tracked, "dev")
        /\ Get(tracked, "dev").missCount = 0
        /\ phases[Get(tracked, "dev").bundler].state = "connected"

\* C35 (as stated): the counter of a tracked instance is set by its own probes
\* alone: between cycles it is the number of cycles in a row in which the
\* instance has been silent, whatever became of the other instances in them.
C35_CounterFollowsOwnProbe ==
    ~InFlight =>
        \A i \in 1..Len(tracked) :
            silentRun[tracked[i].variant] <= MaxThreshold =>
                tracked[i].missCount = silentRun[tracked[i].variant]

Methods == [i \in 1..Len(probe.requests) |-> probe.requests[i].method]

\* C37: the requests of a probe are, in this order, initialize,
\* notifications/initialized and tools/list, or the first of them; tools/list
\* is sent only to a responder that has confirmed its identity and taken the
\* notification; and the session header of the response to initialize, if
\* there is one, is on both requests that follow initialize, which has none.
C37_ProbeRequestOrder ==
    /\ \E n \in 0..3 : Methods = SubSeq(<<"initialize", "notifications/initialized", "tools/list">>, 1, n)
    /\ Len(probe.requests) >= 2 => responder.init = "ok" /\ HasToken
    /\ Len(probe.requests) >= 3 => responder.inited = "ok"
    /\ Len(probe.requests) >= 1 => ~probe.requests[1].session.present
    /\ \A i \in 2..Len(probe.requests) : probe.requests[i].session = probe.token

\* A probe has returned a confirmation after its three requests, the last
\* two with the session header of the response to the first.
C37_Witness ==
    /\ probe.pc = "done"
    /\ probe.result.kind = "confirmed"
    /\ Len(probe.requests) = 3
    /\ probe.token.present
    /\ probe.token.value # ""
    /\ probe.requests[3].session.value = probe.token.value

\* C38 (as stated): between cycles the miss counter of every tracked instance
\* is at least 0 and below the threshold; here for a threshold that is a
\* positive integer.
C38_CounterBelowThreshold ==
    (~InFlight /\ missThreshold >= 1) =>
        \A i \in 1..Len(tracked) :
            tracked[i].missCount >= 0 /\ tracked[i].missCount < missThreshold

\* C39: the flag is clear whenever no cycle is in flight, also after a cycle
\* that a rejected close() has ended; a timer tick or a manual scan that comes
\* when no cycle is in flight then begins one.
C39_FlagClearedWhenCycleEnds ==
    /\ [](~InFlight => ~scanning)
    /\ [][\A k \in 1..Len(scans) : CloseRejected(k) => ~scanning' /\ ~InFlight']_vars
    /\ [][(~InFlight /\ (TimerTick \/ RefreshCall)) =>
            (scanning' /\ Len(scans') = 1 /\ scans'[1].pc = "probing")]_vars

\* A manual scan runs a cycle after a cycle that a rejected close() ended: the
\* instance that cycle failed to tear down is still tracked.
C39_Witness ==
    /\ Len(scans) = 1
    /\ scans[1].pc = "probing"
    /\ scanning
    /\ refresh = "awaiting"
    /\ missThreshold >= 1
    /\ \E i \in 1..Len(tracked) : tracked[i].missCount >= missThreshold

\* C40: whatever termination signals the process receives, shutdown() calls
\* scanner.stop() at most once and server.close() at most once and arms at
\* most one timeout: a signal received once shutdown() has begun changes
\* nothing.
C40_ShutdownRunsOnce ==
    /\ [](shutdown.stopCalls <= 1 /\ shutdown.closeCalls <= 1 /\ shutdown.timeouts <= 1)
    /\ [][(Signal /\ shutdown.pc # "idle") =>
            /\ shutdown' = [shutdown EXCEPT !.signals = @ + 1]
            /\ UNCHANGED <<tracked, timer, intervals, scanning, scans, stops, background,
                           bundlers>>]_vars

\* A second signal has come while shutdown() awaited scanner.stop(), and
\* shutdown() has gone on to its one call of server.close().
C40_Witness ==
    /\ shutdown.signals = 2
    /\ shutdown.pc = "closing"
    /\ shutdown.stopCalls = 1
    /\ shutdown.closeCalls = 1
    /\ shutdown.timeouts = 1
    /\ shutdown.timeout

====
